---------------------------- MODULE Spec2Model ----------------------------
(***************************************************************************)
(* The in-memory post store of backend/backend_app.py (masterblog-api):    *)
(* the module-level list POSTS and the five request handlers get_posts,    *)
(* add_post, delete_post, update_post and search_posts.                    *)
(*                                                                         *)
(* A str value is named by a TLA+ string and Chars gives its characters,   *)
(* so that str.lower(), the substring test `in`, the code-point ordering   *)
(* used by list.sort() and the date parser are computed on characters, not *)
(* assumed.  A date is a record [year, month, day]; the wire format is     *)
(* produced by strftime and read by parse_date_string.                     *)
(* A JSON body or a query string is a function from the keys it holds to   *)
(* their (text) values; a key that is not sent is not in its DOMAIN.       *)
(* JSON values that are not strings are outside the modelled inputs.       *)
(***************************************************************************)
EXTENDS Integers, Sequences, FiniteSets, TLC

VARIABLES
    POSTS,      \* the module-level list POSTS
    request,    \* the request being answered ([op |-> "none"] when idle)
    response,   \* the (status, body) pair the handler returned
    before,     \* history: POSTS as it was when that request arrived
    issued,     \* history: the ids given to posts, in the order given
    nwrites     \* number of POST and PUT requests handled so far (bounded)

vars == <<POSTS, request, response, before, issued, nwrites>>

(* Bound of the exploration: the POST and PUT requests of one behaviour. *)
(* DELETE and GET requests are not bounded.                              *)
MaxWrites == 1

-----------------------------------------------------------------------------
(* Text: characters in code-point order, str.lower(), <, and `in`. *)

Alphabet ==
    <<" ", "-", ".", "0", "1", "2", "3", "4", "5", "6", "7", "8", "9",
      "A", "B", "C", "D", "E", "F", "G", "H", "I", "J", "K", "L", "M",
      "N", "O", "P", "Q", "R", "S", "T", "U", "V", "W", "X", "Y", "Z",
      "a", "b", "c", "d", "e", "f", "g", "h", "i", "j", "k", "l", "m",
      "n", "o", "p", "q", "r", "s", "t", "u", "v", "w", "x", "y", "z">>

Range(s) == {s[i] : i \in DOMAIN s}

\* the characters of every str value the model handles
Chars ==
    "" :> << >>
    @@ "First Post" :> <<"F", "i", "r", "s", "t", " ", "P", "o", "s", "t">>
    @@ "Second Post" :>
         <<"S", "e", "c", "o", "n", "d", " ", "P", "o", "s", "t">>
    @@ "Third Post" :> <<"T", "h", "i", "r", "d", " ", "P", "o", "s", "t">>
    @@ "Fourth Post" :>
         <<"F", "o", "u", "r", "t", "h", " ", "P", "o", "s", "t">>
    @@ "Fifth Post" :> <<"F", "i", "f", "t", "h", " ", "P", "o", "s", "t">>
    @@ "This is the first post." :>
         <<"T", "h", "i", "s", " ", "i", "s", " ", "t", "h", "e", " ", "f",
                    "i", "r", "s", "t", " ", "p", "o", "s", "t", ".">>
    @@ "This is the second post." :>
         <<"T", "h", "i", "s", " ", "i", "s", " ", "t", "h", "e", " ", "s",
                    "e", "c", "o", "n", "d", " ", "p", "o", "s", "t", ".">>
    @@ "Another interesting post content." :>
         <<"A", "n", "o", "t", "h", "e", "r", " ", "i", "n", "t", "e", "r",
                    "e", "s", "t", "i", "n", "g", " ", "p", "o", "s", "t", " ",
                    "c", "o", "n", "t", "e", "n", "t", ".">>
    @@ "Yet another piece of content for a blog." :>
         <<"Y", "e", "t", " ", "a", "n", "o", "t", "h", "e", "r", " ", "p",
                    "i", "e", "c", "e", " ", "o", "f", " ", "c", "o", "n", "t",
                    "e", "n", "t", " ", "f", "o", "r", " ", "a", " ", "b", "l",
                    "o", "g", ".">>
    @@ "Concluding thoughts on a topic." :>
         <<"C", "o", "n", "c", "l", "u", "d", "i", "n", "g", " ", "t", "h",
                    "o", "u", "g", "h", "t", "s", " ", "o", "n", " ", "a", " ",
                    "t", "o", "p", "i", "c", ".">>
    @@ "John Doe" :> <<"J", "o", "h", "n", " ", "D", "o", "e">>
    @@ "Jane Smith" :> <<"J", "a", "n", "e", " ", "S", "m", "i", "t", "h">>
    @@ "Alice Brown" :>
         <<"A", "l", "i", "c", "e", " ", "B", "r", "o", "w", "n">>
    @@ "first" :> <<"f", "i", "r", "s", "t">>
    @@ "New content." :>
         <<"N", "e", "w", " ", "c", "o", "n", "t", "e", "n", "t", ".">>
    @@ "2023-6-7" :> <<"2", "0", "2", "3", "-", "6", "-", "7">>
    @@ "2023-02-29" :> <<"2", "0", "2", "3", "-", "0", "2", "-", "2", "9">>
    @@ "2023-06-08" :> <<"2", "0", "2", "3", "-", "0", "6", "-", "0", "8">>
    @@ "2023-6-8" :> <<"2", "0", "2", "3", "-", "6", "-", "8">>
    @@ "2023-06" :> <<"2", "0", "2", "3", "-", "0", "6">>
    @@ "9" :> <<"9">>
    @@ "FIRST" :> <<"F", "I", "R", "S", "T">>
    @@ "content" :> <<"c", "o", "n", "t", "e", "n", "t">>
    @@ "jane" :> <<"j", "a", "n", "e">>

Ord == [c \in Range(Alphabet) |-> CHOOSE i \in DOMAIN Alphabet : Alphabet[i] = c]

UpperCase ==
    {"A", "B", "C", "D", "E", "F", "G", "H", "I", "J", "K", "L", "M",
     "N", "O", "P", "Q", "R", "S", "T", "U", "V", "W", "X", "Y", "Z"}

LowerChar == [c \in Range(Alphabet) |->
    IF c \in UpperCase THEN Alphabet[Ord[c] + Cardinality(UpperCase)] ELSE c]

\* str.lower()
lower(s) == [i \in DOMAIN s |-> LowerChar[s[i]]]

\* a < b for two str values: code-point lexicographic, a proper prefix first
StrLess(a, b) ==
    \E i \in 1..(Len(b)) :
        /\ i <= Len(a) + 1
        /\ \A j \in 1..(i - 1) : a[j] = b[j]
        /\ \/ i = Len(a) + 1
           \/ (i <= Len(a) /\ Ord[a[i]] < Ord[b[i]])

\* needle in hay
Contains(needle, hay) ==
    \E i \in 0..(Len(hay) - Len(needle)) :
        SubSeq(hay, i + 1, i + Len(needle)) = needle

-----------------------------------------------------------------------------
(* Dates: parse_date_string (strptime '%Y-%m-%d') and strftime. *)

DigitChars == <<"0", "1", "2", "3", "4", "5", "6", "7", "8", "9">>

IsDigit(c) == c \in Range(DigitChars)

DigitVal(c) == (CHOOSE i \in DOMAIN DigitChars : DigitChars[i] = c) - 1

RECURSIVE IntOf(_)
IntOf(s) ==
    IF s = << >> THEN 0
    ELSE 10 * IntOf(SubSeq(s, 1, Len(s) - 1)) + DigitVal(s[Len(s)])

AllDigits(s) == \A i \in DOMAIN s : IsDigit(s[i])

NoDate == [year |-> 0, month |-> 0, day |-> 0]

IsLeap(y) == (y % 4 = 0 /\ y % 100 # 0) \/ y % 400 = 0

DaysInMonth(y, m) ==
    IF m = 2 THEN (IF IsLeap(y) THEN 29 ELSE 28)
    ELSE IF m \in {4, 6, 9, 11} THEN 30 ELSE 31

\* %Y is \d\d\d\d; %m is 1[0-2]|0[1-9]|[1-9]; %d is 3[01]|[12]\d|0[1-9]|[1-9]| [1-9]
YearField(s) == Len(s) = 4 /\ AllDigits(s)

MonthField(s) == Len(s) \in {1, 2} /\ AllDigits(s) /\ IntOf(s) \in 1..12

DayField(s) ==
    \/ (Len(s) \in {1, 2} /\ AllDigits(s) /\ IntOf(s) \in 1..31)
    \/ (Len(s) = 2 /\ s[1] = " " /\ IsDigit(s[2]) /\ s[2] # "0")

DayValue(s) == IF s[1] = " " THEN DigitVal(s[2]) ELSE IntOf(s)

\* The splits y-m-d of date_str the whole-string regular expression accepts.
DateSplits(s) ==
    {<<i, j>> \in (DOMAIN s) \X (DOMAIN s) :
        /\ i < j
        /\ s[i] = "-" /\ s[j] = "-"
        /\ YearField(SubSeq(s, 1, i - 1))
        /\ MonthField(SubSeq(s, i + 1, j - 1))
        /\ DayField(SubSeq(s, j + 1, Len(s)))}

parse_date_string(date_str) ==
    IF DateSplits(Chars[date_str]) = {} THEN NoDate
    ELSE LET s == Chars[date_str]
             ij == CHOOSE x \in DateSplits(s) : TRUE
             y == IntOf(SubSeq(s, 1, ij[1] - 1))
             m == IntOf(SubSeq(s, ij[1] + 1, ij[2] - 1))
             d == DayValue(SubSeq(s, ij[2] + 1, Len(s)))
         IN  IF y >= 1 /\ d <= DaysInMonth(y, m)
             THEN [year |-> y, month |-> m, day |-> d]
             ELSE NoDate

Digit(n) == DigitChars[n + 1]

\* date.strftime('%Y-%m-%d') for a four-digit year
strftime(d) ==
    <<Digit(d.year \div 1000), Digit((d.year \div 100) % 10),
      Digit((d.year \div 10) % 10), Digit(d.year % 10), "-",
      Digit(d.month \div 10), Digit(d.month % 10), "-",
      Digit(d.day \div 10), Digit(d.day % 10)>>

\* chronological order of datetime.date
DateLess(a, b) ==
    \/ a.year < b.year
    \/ (a.year = b.year /\ a.month < b.month)
    \/ (a.year = b.year /\ a.month = b.month /\ a.day < b.day)

serialize_post(post) == [post EXCEPT !.date = strftime(post.date)]

-----------------------------------------------------------------------------
(* The seed list. *)

SeedPosts ==
    << [id |-> 1,
        title |-> "First Post",
        content |-> "This is the first post.",
        author |-> "John Doe",
        date |-> [year |-> 2023, month |-> 6, day |-> 7]],
       [id |-> 2,
        title |-> "Second Post",
        content |-> "This is the second post.",
        author |-> "Jane Smith",
        date |-> [year |-> 2023, month |-> 6, day |-> 8]],
       [id |-> 3,
        title |-> "Third Post",
        content |-> "Another interesting post content.",
        author |-> "John Doe",
        date |-> [year |-> 2023, month |-> 6, day |-> 9]],
       [id |-> 4,
        title |-> "Fourth Post",
        content |-> "Yet another piece of content for a blog.",
        author |-> "Alice Brown",
        date |-> [year |-> 2023, month |-> 6, day |-> 10]],
       [id |-> 5,
        title |-> "Fifth Post",
        content |-> "Concluding thoughts on a topic.",
        author |-> "Jane Smith",
        date |-> [year |-> 2023, month |-> 6, day |-> 11]] >>

Ids(posts) == {posts[i].id : i \in DOMAIN posts}

Max(S) == CHOOSE x \in S : \A y \in S : y <= x

get_next_id_len(posts) == Len(posts) + 1

get_next_id(posts) ==
    IF posts = << >> THEN 1 ELSE Max(Ids(posts)) + 1

NoRequest == [op |-> "none"]

NoResponse == [status |-> 0]

Init ==
    /\ POSTS = SeedPosts
    /\ request = NoRequest
    /\ response = NoResponse
    /\ before = << >>
    /\ issued = [i \in DOMAIN SeedPosts |-> SeedPosts[i].id]
    /\ nwrites = 0

-----------------------------------------------------------------------------
(* Inputs: JSON bodies and query strings as functions from the keys sent. *)

Fields == <<"title", "content", "author", "date">>

Has(d, k) == k \in DOMAIN d

\* dict.get(k): a value Python treats as false (None when absent, or '')
Falsy(d, k) == ~Has(d, k) \/ d[k] = ""

\* dict.get(k, ''): the value, or the empty text
GetOrEmpty(d, k) == IF Has(d, k) THEN d[k] ELSE ""

CreateInputs ==
    [title   |-> {"", "first"},
     content |-> {"", "New content."},
     author  |-> {"", "Jane Smith"},
     date    |-> {"", "2023-6-7", "2023-02-29"}]

PartialMaps(inputs) ==
    UNION {{b \in [K -> UNION {inputs[k] : k \in K}] : \A k \in K : b[k] \in inputs[k]}
           : K \in SUBSET (DOMAIN inputs)}

\* a JSON object that holds none of the four keys and is not empty
UnknownKeyBody == [id |-> "9"]

CreateBodies == PartialMaps(CreateInputs) \cup {UnknownKeyBody}

\* PUT bodies: none, one, some and all of the keys; empty and non-empty
\* values; a date that parses and one that does not, alone and with others.
UpdateBodies ==
    {b \in PartialMaps(CreateInputs) :
        \/ DOMAIN b = {}
        \/ (DOMAIN b = {"title"})
        \/ (DOMAIN b = {"content"} /\ b["content"] # "")
        \/ (DOMAIN b = {"date"} /\ b["date"] # "")
        \/ (DOMAIN b = {"title", "date"} /\ b["title"] # "" /\ b["date"] = "2023-02-29")
        \/ (DOMAIN b = {"content", "author", "date"}
               /\ b["content"] = "" /\ b["author"] # "" /\ b["date"] = "2023-02-29")
        \/ (DOMAIN b = Range(Fields)
               /\ \A k \in DOMAIN b : b[k] # ""
               /\ parse_date_string(b["date"]) # NoDate)}

SearchInputs ==
    [title   |-> {"", "FIRST"},
     content |-> {"content"},
     author  |-> {"jane"},
     date    |-> {"2023-06-08", "2023-6-8", "2023-06"}]

SearchArgs == PartialMaps(SearchInputs)

ListInputs ==
    [sort      |-> {"", "title", "content", "author", "date", "bogus"},
     direction |-> {"asc", "desc", "up"}]

ListArgs == PartialMaps(ListInputs)

PostIds == 1..(Len(SeedPosts) + MaxWrites)

-----------------------------------------------------------------------------
(* GET /posts *)

KeyLess(sort_by, a, b) ==
    IF sort_by = "date" THEN DateLess(a.date, b.date)
    ELSE StrLess(Chars[a[sort_by]], Chars[b[sort_by]])

\* p comes before e in the order asked for
Before(sort_by, reverse_sort, p, e) ==
    IF reverse_sort THEN KeyLess(sort_by, e, p) ELSE KeyLess(sort_by, p, e)

Reverse(s) == [i \in DOMAIN s |-> s[Len(s) + 1 - i]]

\* the place of p among the already sorted posts: before the first it precedes
InsertPost(sorted, p, sort_by, reverse_sort) ==
    LET later == {i \in DOMAIN sorted : Before(sort_by, reverse_sort, p, sorted[i])}
        at == IF later = {} THEN Len(sorted) + 1
              ELSE CHOOSE i \in later : \A j \in later : i <= j
    IN  SubSeq(sorted, 1, at - 1) \o <<p>> \o SubSeq(sorted, at, Len(sorted))

RECURSIVE StableSort(_, _, _)
StableSort(posts, sort_by, reverse_sort) ==
    IF posts = << >> THEN << >>
    ELSE InsertPost(StableSort(SubSeq(posts, 1, Len(posts) - 1), sort_by, reverse_sort),
                    posts[Len(posts)], sort_by, reverse_sort)

sort_reversing_ascending(posts, sort_by, reverse_sort) ==
    IF reverse_sort THEN Reverse(StableSort(posts, sort_by, FALSE))
    ELSE StableSort(posts, sort_by, FALSE)

\* list.sort(key=lambda post: post[sort_by], reverse=reverse_sort)
sort(posts, sort_by, reverse_sort) == StableSort(posts, sort_by, reverse_sort)

store_after_sort_in_place(posts, current_posts) == current_posts

\* current_posts = list(POSTS): the sort works on a copy, POSTS keeps its order
store_after_sort(posts, current_posts) == posts

SerializeAll(posts) == [i \in DOMAIN posts |-> serialize_post(posts[i])]

get_posts(args) ==
    /\ request = NoRequest
    /\ request' = [op |-> "list", args |-> args]
    /\ before' = POSTS
    /\ IF Has(args, "sort") /\ args["sort"] # ""    \* if sort_by: (not None, not '')
       THEN IF args["sort"] \notin {"title", "content", "author", "date"}
            THEN /\ response' = [status |-> 400, error |-> "Invalid sort field"]
                 /\ POSTS' = POSTS
            ELSE IF ~Has(args, "direction") \/ args["direction"] \notin {"asc", "desc"}
            THEN /\ response' = [status |-> 400, error |-> "Invalid sort direction"]
                 /\ POSTS' = POSTS
            ELSE LET reverse_sort == args["direction"] = "desc"
                     current_posts == sort(POSTS, args["sort"], reverse_sort)
                 IN  /\ response' = [status |-> 200, body |-> SerializeAll(current_posts)]
                     /\ POSTS' = store_after_sort(POSTS, current_posts)
       ELSE /\ response' = [status |-> 200, body |-> SerializeAll(POSTS)]
            /\ POSTS' = POSTS
    /\ UNCHANGED <<issued, nwrites>>

-----------------------------------------------------------------------------
(* POST /posts *)

missing_fields(data) ==
    SelectSeq(Fields, LAMBDA k : Falsy(data, k))

add_post(data) ==
    /\ request = NoRequest
    /\ nwrites < MaxWrites
    /\ nwrites' = nwrites + 1
    /\ request' = [op |-> "add", data |-> data]
    /\ before' = POSTS
    /\ IF DOMAIN data = {}
       THEN /\ response' = [status |-> 400, error |-> "Request body must be JSON"]
            /\ UNCHANGED <<POSTS, issued>>
       ELSE IF missing_fields(data) # << >>
       THEN /\ response' = [status |-> 400, error |-> "Missing required fields",
                            fields |-> missing_fields(data)]
            /\ UNCHANGED <<POSTS, issued>>
       ELSE IF parse_date_string(data["date"]) = NoDate
       THEN /\ response' = [status |-> 400, error |-> "Invalid date format"]
            /\ UNCHANGED <<POSTS, issued>>
       ELSE LET new_id == get_next_id(POSTS)
                new_post == [id |-> new_id, title |-> data["title"],
                             content |-> data["content"], author |-> data["author"],
                             date |-> parse_date_string(data["date"])]
            IN  /\ POSTS' = Append(POSTS, new_post)
                /\ issued' = Append(issued, new_id)
                /\ response' = [status |-> 201, body |-> serialize_post(new_post)]

-----------------------------------------------------------------------------
(* DELETE /posts/<post_id> *)

keep_ids_below(posts, post_id) ==
    SelectSeq(posts, LAMBDA post : post.id < post_id)

\* [post for post in POSTS if post['id'] != post_id]
without_id(posts, post_id) ==
    SelectSeq(posts, LAMBDA post : post.id # post_id)

delete_post(post_id) ==
    /\ request = NoRequest
    /\ request' = [op |-> "delete", post_id |-> post_id]
    /\ before' = POSTS
    /\ POSTS' = without_id(POSTS, post_id)
    /\ response' = IF Len(POSTS') < Len(POSTS)
                   THEN [status |-> 200, message |-> "deleted"]
                   ELSE [status |-> 404, error |-> "not found"]
    /\ UNCHANGED <<issued, nwrites>>

-----------------------------------------------------------------------------
(* PUT /posts/<post_id> *)

SetIfSent(post, data, k) ==
    IF Has(data, k) THEN [post EXCEPT ![k] = data[k]] ELSE post

\* the three assignments made before the date is looked at
update_text_fields(post, data) ==
    SetIfSent(SetIfSent(SetIfSent(post, data, "title"), data, "content"), data, "author")

update_post(post_id, data) ==
    /\ request = NoRequest
    /\ nwrites < MaxWrites
    /\ nwrites' = nwrites + 1
    /\ request' = [op |-> "update", post_id |-> post_id, data |-> data]
    /\ before' = POSTS
    /\ UNCHANGED issued
    /\ IF post_id \notin Ids(POSTS)
       THEN /\ response' = [status |-> 404, error |-> "not found"]
            /\ POSTS' = POSTS
       ELSE LET at == CHOOSE i \in DOMAIN POSTS :
                        /\ POSTS[i].id = post_id
                        /\ \A j \in 1..(i - 1) : POSTS[j].id # post_id
                post_found == update_text_fields(POSTS[at], data)
            IN  IF Has(data, "date")
                THEN IF parse_date_string(data["date"]) = NoDate
                     THEN /\ response' = [status |-> 400, error |-> "Invalid date format"]
                          /\ POSTS' = [POSTS EXCEPT ![at] = post_found]
                     ELSE LET dated == [post_found EXCEPT
                                           !.date = parse_date_string(data["date"])]
                          IN  /\ POSTS' = [POSTS EXCEPT ![at] = dated]
                              /\ response' = [status |-> 200, body |-> serialize_post(dated)]
                ELSE /\ POSTS' = [POSTS EXCEPT ![at] = post_found]
                     /\ response' = [status |-> 200, body |-> serialize_post(post_found)]

-----------------------------------------------------------------------------
(* GET /posts/search *)

post_matches_all(post, args) ==
    LET search_title == lower(Chars[GetOrEmpty(args, "title")])
        search_content == lower(Chars[GetOrEmpty(args, "content")])
        search_author == lower(Chars[GetOrEmpty(args, "author")])
        search_date_str == Chars[GetOrEmpty(args, "date")]
    IN  /\ (search_title # << >> => Contains(search_title, lower(Chars[post.title])))
        /\ (search_content # << >> => Contains(search_content, lower(Chars[post.content])))
        /\ (search_author # << >> => Contains(search_author, lower(Chars[post.author])))
        /\ (search_date_str # << >> => search_date_str = strftime(post.date))

post_matches(post, args) ==
    LET search_title == lower(Chars[GetOrEmpty(args, "title")])
        search_content == lower(Chars[GetOrEmpty(args, "content")])
        search_author == lower(Chars[GetOrEmpty(args, "author")])
        search_date_str == Chars[GetOrEmpty(args, "date")]
        title_matches == search_title # << >> /\ Contains(search_title, lower(Chars[post.title]))
        content_matches == search_content # << >>
                              /\ Contains(search_content, lower(Chars[post.content]))
        author_matches == search_author # << >>
                              /\ Contains(search_author, lower(Chars[post.author]))
        date_matches == search_date_str # << >> /\ search_date_str = strftime(post.date)
    IN  title_matches \/ content_matches \/ author_matches \/ date_matches

search_posts(args) ==
    /\ request = NoRequest
    /\ request' = [op |-> "search", args |-> args]
    /\ before' = POSTS
    /\ response' = [status |-> 200,
                    body |-> SerializeAll(SelectSeq(POSTS, LAMBDA post : post_matches(post, args)))]
    /\ UNCHANGED <<POSTS, issued, nwrites>>

-----------------------------------------------------------------------------
(* The response is sent and the server waits for the next request. *)

Respond ==
    /\ request # NoRequest
    /\ request' = NoRequest
    /\ response' = NoResponse
    /\ before' = << >>
    /\ UNCHANGED <<POSTS, issued, nwrites>>

Next ==
    \/ \E args \in ListArgs : get_posts(args)
    \/ \E data \in CreateBodies : add_post(data)
    \/ \E post_id \in PostIds : delete_post(post_id)
    \/ \E post_id \in PostIds, data \in UpdateBodies : update_post(post_id, data)
    \/ \E args \in SearchArgs : search_posts(args)
    \/ Respond

Spec == Init /\ [][Next]_vars

-----------------------------------------------------------------------------
(* Properties.  In a state with request # NoRequest, `before` is the store *)
(* the request found, POSTS the store it left and `response` its answer.   *)

Distinct(s) == \A i, j \in DOMAIN s : i # j => s[i] # s[j]

IdSeq(posts) == [i \in DOMAIN posts |-> posts[i].id]

\* C1: the id a create assigns was never assigned to an earlier post, live
\* or deleted: the ids issued since the start are pairwise different.
C1_IdsNeverReused == Distinct(issued)

InvalidDateUpdate ==
    /\ request.op = "update"
    /\ request.post_id \in Ids(before)
    /\ Has(request.data, "date")
    /\ parse_date_string(request.data["date"]) = NoDate

\* C2: an update of an existing post whose date does not parse is refused
\* with a validation error and leaves the whole store, hence every field of
\* that post, as it was, whatever other keys the body holds.
C2_InvalidDateUpdateChangesNothing ==
    InvalidDateUpdate => (response.status = 400 /\ POSTS = before)

\* C3: every stored post has a non-empty title, content and author and a date.
C3_FieldsNonEmpty ==
    \A i \in DOMAIN POSTS :
        /\ POSTS[i].title # ""
        /\ POSTS[i].content # ""
        /\ POSTS[i].author # ""
        /\ POSTS[i].date # NoDate

\* C4: no two live posts have the same id.
C4_LiveIdsUnique == Distinct(IdSeq(POSTS))

C4_CreateAfterDelete ==
    /\ request.op = "add"
    /\ response.status = 201
    /\ Len(POSTS) >= 2
    /\ \E k \in 1..response.body.id : k \notin Ids(POSTS)

AbsentOrEmpty(data) == {k \in Range(Fields) : ~Has(data, k) \/ data[k] = ""}

\* C5: a create with a field absent or empty is refused with a validation
\* error that names exactly the absent or empty fields, and the store (its
\* posts, their order, the next id) is as before.
C5_CreateNamesMissingFields ==
    (request.op = "add" /\ AbsentOrEmpty(request.data) # {}) =>
        /\ response.status = 400
        /\ Has(response, "fields")
        /\ Range(response.fields) = AbsentOrEmpty(request.data)
        /\ POSTS = before

\* C6: a successful create appends exactly one post; its id is the greatest
\* id present before plus one, so it exceeds every id present, and it is 1
\* when the store was empty.
C6_CreateAssignsMaxPlusOne ==
    (request.op = "add" /\ response.status = 201) =>
        /\ Len(POSTS) = Len(before) + 1
        /\ SubSeq(POSTS, 1, Len(before)) = before
        /\ response.body = serialize_post(POSTS[Len(POSTS)])
        /\ \A i \in DOMAIN before : before[i].id < POSTS[Len(POSTS)].id
        /\ (before = << >> => POSTS[Len(POSTS)].id = 1)
        /\ (before # << >> =>
                \E i \in DOMAIN before : POSTS[Len(POSTS)].id = before[i].id + 1)

C6_CreateOnEmptyStore ==
    /\ request.op = "add"
    /\ response.status = 201
    /\ before = << >>
    /\ response.body.id = 1

\* C7: deleting an id that is present removes that post and nothing else,
\* the others keeping their fields and order; deleting an id that is not
\* present (a second delete, say) answers not-found and changes nothing.
C7_DeleteRemovesOnlyThatPost ==
    request.op = "delete" =>
        IF request.post_id \in Ids(before)
        THEN /\ response.status = 200
             /\ \E k \in DOMAIN before :
                    /\ before[k].id = request.post_id
                    /\ POSTS = SubSeq(before, 1, k - 1)
                                   \o SubSeq(before, k + 1, Len(before))
        ELSE /\ response.status = 404
             /\ POSTS = before

C7_SecondDelete ==
    /\ request.op = "delete"
    /\ response.status = 404
    /\ \E i \in DOMAIN issued : issued[i] = request.post_id
    /\ POSTS # << >>

Unsorted(args) == ~Has(args, "sort") \/ args["sort"] = ""

\* C8: a list (any sort field and direction) or a search leaves the store as
\* it was; the store stays in insertion order (ascending id) and an unsorted
\* list returns it in that order.
C8_ReadsLeaveStore ==
    /\ (request.op \in {"list", "search"} => POSTS = before)
    /\ \A i, j \in DOMAIN POSTS : i < j => POSTS[i].id < POSTS[j].id
    /\ (request.op = "list" /\ Unsorted(request.args)) =>
           (response.status = 200 /\ response.body = SerializeAll(POSTS))

C8_ReorderingListAnswered ==
    /\ request.op = "list"
    /\ response.status = 200
    /\ response.body # SerializeAll(POSTS)

\* needle occurs in hay when case is ignored
OccursIgnoringCase(needle, hay) ==
    \E off \in 0..(Len(Chars[hay]) - Len(Chars[needle])) :
        \A i \in 1..Len(Chars[needle]) :
            LowerChar[Chars[needle][i]] = LowerChar[Chars[hay][off + i]]

CriterionMatches(post, args, k) ==
    /\ Has(args, k)
    /\ args[k] # ""
    /\ IF k = "date" THEN Chars[args[k]] = strftime(post.date)
       ELSE OccursIgnoringCase(args[k], post[k])

\* C9: a search returns the stored posts, in stored order and each once, for
\* which at least one non-empty criterion matches (title, content, author:
\* substring ignoring case; date: equal to the stored date as YYYY-MM-DD);
\* with every criterion empty the result is empty.
C9_SearchReturnsMatches ==
    request.op = "search" =>
        /\ response.status = 200
        /\ response.body =
               SerializeAll(SelectSeq(POSTS, LAMBDA post :
                   \E k \in Range(Fields) : CriterionMatches(post, request.args, k)))
        /\ ((\A k \in Range(Fields) : ~Has(request.args, k) \/ request.args[k] = "")
                => response.body = << >>)

C9_PostMatchedTwiceListedOnce ==
    /\ request.op = "search"
    /\ \E i \in DOMAIN POSTS :
           /\ CriterionMatches(POSTS[i], request.args, "author")
           /\ CriterionMatches(POSTS[i], request.args, "date")
           /\ Cardinality({j \in DOMAIN response.body :
                              response.body[j].id = POSTS[i].id}) = 1
    /\ Len(response.body) < Len(POSTS)

SortedList ==
    /\ request.op = "list"
    /\ Has(request.args, "sort")
    /\ request.args["sort"] \in Range(Fields)
    /\ Has(request.args, "direction")
    /\ request.args["direction"] \in {"asc", "desc"}

\* the place in the store of the i-th post of a list response
PlaceOf(body, i) == CHOOSE k \in DOMAIN POSTS : POSTS[k].id = body[i].id

NoTies(sort_by) ==
    \A i, j \in DOMAIN POSTS :
        i # j => (KeyLess(sort_by, POSTS[i], POSTS[j]) \/ KeyLess(sort_by, POSTS[j], POSTS[i]))

\* C10: for a valid sort field and direction the list is a permutation of
\* the stored posts, non-decreasing (asc) or non-increasing (desc) in that
\* field, posts with equal values keeping their stored order in both
\* directions; without ties the desc list is the asc list reversed.
C10_SortIsStablePermutation ==
    SortedList =>
        LET body == response.body
            sort_by == request.args["sort"]
            desc == request.args["direction"] = "desc"
        IN  /\ response.status = 200
            /\ Len(body) = Len(POSTS)
            /\ Distinct(IdSeq(body))
            /\ \A i \in DOMAIN body :
                   /\ body[i].id \in Ids(POSTS)
                   /\ body[i] = serialize_post(POSTS[PlaceOf(body, i)])
            /\ \A i, j \in DOMAIN body :
                   i < j =>
                       LET a == POSTS[PlaceOf(body, i)]
                           b == POSTS[PlaceOf(body, j)]
                       IN  /\ IF desc THEN ~KeyLess(sort_by, a, b)
                              ELSE ~KeyLess(sort_by, b, a)
                           /\ (~KeyLess(sort_by, a, b) /\ ~KeyLess(sort_by, b, a))
                                  => PlaceOf(body, i) < PlaceOf(body, j)
            /\ (desc /\ NoTies(sort_by)) =>
                   body = Reverse(SerializeAll(sort(POSTS, sort_by, FALSE)))

C10_DescendingWithTies ==
    /\ SortedList
    /\ request.args["direction"] = "desc"
    /\ response.status = 200
    /\ Len(POSTS) >= 3
    /\ ~NoTies(request.args["sort"])

=============================================================================
